---- MODULE Spec2Model ----
(***************************************************************************)
(* Anode Current Monitor (src/app.py): the data-combination and derived-   *)
(* metrics pipeline of the Streamlit script.                               *)
(*                                                                         *)
(*   load_and_combine_data : parse files, concat, Timestamp, drop, sort,   *)
(*                           five derived columns                          *)
(*   sidebar               : start/end pickers, resample rule, range check *)
(*   data processing       : mask filter, resample(rule).mean()            *)
(*   calculate_auc         : trapezoidal charge and average current        *)
(*                                                                         *)
(* Numbers: cell values are integers or NaN; means and integrals are exact *)
(* rationals <<num, den>>.  A Timestamp is the number of seconds since     *)
(* 01/01/2025 00:00:00, which is a bucket boundary of every rule modelled. *)
(***************************************************************************)
EXTENDS Integers, Sequences, FiniteSets, TLC

(***************************************************************************)
(* Bounds of the model.                                                    *)
(***************************************************************************)
\* most files in one upload
MaxFiles == 2
\* most lines (over all files) in one upload
MaxLines == 3
\* most rows of a series handed to calculate_auc on its own
MaxAucRows == 3

(***************************************************************************)
(* Values.                                                                 *)
(***************************************************************************)
\* A value that may be undefined is <<x>> when defined and <<>> when not:
\* a cell (pandas NaN), a Timestamp (NaT), a Python value (None).
NaN == <<>>
NaT == <<>>
None == <<>>
Some(x) == <<x>>
\* the value of a defined one
Val(o) == o[1]

Abs(n) == IF n < 0 THEN -n ELSE n

RECURSIVE GCD(_, _)
GCD(a, b) == IF b = 0 THEN a ELSE GCD(b, a % b)

\* the rational n/d (d > 0) in lowest terms
Rat(n, d) == LET g == GCD(Abs(n), d) IN <<n \div g, d \div g>>

RatAdd(p, q) == Rat(p[1] * q[2] + q[1] * p[2], p[2] * q[2])

\* p / k for an integer k > 0
RatDiv(p, k) == Rat(p[1], p[2] * k)

Zero == Rat(0, 1)

RECURSIVE SeqSum(_)
SeqSum(s) == IF s = <<>> THEN 0 ELSE Head(s) + SeqSum(Tail(s))

Range(s) == {s[i] : i \in DOMAIN s}

(***************************************************************************)
(* Column names.                                                           *)
(***************************************************************************)
BareB7 == "Bare Anode B7 (REC.1)"
TotalLeft == "Total Left Bare Anode (L6+B4)"
TotalRight == "Total Right Bare Anode (R6+R8)"
TotalBottom == "Total Bottom Bare Anode (B2+B3+L8+L10+L12)"
OverallBare == "Overall Bare Anode"

\* the five columns load_and_combine_data adds (new_fixed_cols)
DerivedCols == {BareB7, TotalLeft, TotalRight, TotalBottom, OverallBare}

bottom_cols == {"B2", "B3", "L8", "L10", "L12"}

overall_bare_anode_cols ==
    {"B7", "L6", "B4", "R6", "R8", "B2", "B3", "L8", "L10", "L12"}

\* the source channels each derived column is documented to sum
Sources(d) ==
    CASE d = BareB7 -> {"B7"}
      [] d = TotalLeft -> {"L6", "B4"}
      [] d = TotalRight -> {"R6", "R8"}
      [] d = TotalBottom -> bottom_cols
      [] d = OverallBare -> overall_bare_anode_cols

\* temp_df.columns.str.strip(), on the headers the uploads use
Strip(h) == IF h = " B7 " THEN "B7" ELSE h

(***************************************************************************)
(* Timestamp parsing: pd.to_datetime(DATE + ' ' + TIME,                    *)
(* format='%d/%m/%Y %H:%M:%S', errors='coerce').  DATE is the text split   *)
(* at '/', <<day, month, year>>; TIME the text split at ':',               *)
(* <<hour, minute, second>>.                                               *)
(***************************************************************************)
IsLeap(y) == (y % 4 = 0 /\ y % 100 # 0) \/ y % 400 = 0

DaysInMonth(m, y) ==
    IF m = 2 THEN (IF IsLeap(y) THEN 29 ELSE 28)
    ELSE IF m \in {4, 6, 9, 11} THEN 30 ELSE 31

RECURSIVE DaysBeforeMonth(_, _)
DaysBeforeMonth(m, y) ==
    IF m = 1 THEN 0 ELSE DaysBeforeMonth(m - 1, y) + DaysInMonth(m - 1, y)

LeapsBefore(y) == ((y - 1) \div 4) - ((y - 1) \div 100) + ((y - 1) \div 400)

\* days from 01/01/2025 to 01/01/y
DaysBeforeYear(y) == 365 * (y - 2025) + LeapsBefore(y) - LeapsBefore(2025)

to_datetime(date, time) ==
    IF date = NaN \/ time = NaN THEN NaT
    ELSE LET d == date[1]  m == date[2]  y == date[3]
             H == time[1]  M == time[2]  S == time[3]
         IN IF /\ y \in 1..9999 /\ m \in 1..12 /\ d \in 1..DaysInMonth(m, y)
               /\ H \in 0..23 /\ M \in 0..59 /\ S \in 0..59
            THEN Some((DaysBeforeYear(y) + DaysBeforeMonth(m, y) + d - 1) * 86400
                      + H * 3600 + M * 60 + S)
            ELSE NaT

(***************************************************************************)
(* Uploaded files.  A file is [name, ok, headers, lines]: ok = FALSE is a  *)
(* file pd.read_csv raises on; headers are the raw header cells; a line is *)
(* a function from the headers to cell values.                             *)
(***************************************************************************)
\* the value a sample line with reading v holds in channel column c
Weight(c) ==
    CASE c = "B7" -> 1 [] c = "L6" -> 2 [] c = "B4" -> 4 [] c = "R6" -> 8
      [] c = "R8" -> 16 [] c = "B2" -> 32 [] c = "B3" -> 64 [] c = "L8" -> 128
      [] c = "L10" -> 256 [] c = "L12" -> 512
      [] OTHER -> 1

MakeLine(s, headers) ==
    [h \in headers |->
        IF h = "DATE" THEN s.DATE
        ELSE IF h = "TIME" THEN s.TIME
        ELSE Some(s.v * Weight(Strip(h)))]

Jan1 == <<1, 1, 2025>>

\* sample lines of the files that differ in their timestamps
TimeLines ==
    { [DATE |-> Jan1, TIME |-> <<0, 1, 0>>, v |-> 2],
      [DATE |-> Jan1, TIME |-> <<0, 1, 25>>, v |-> 1],
      [DATE |-> Jan1, TIME |-> <<99, 99, 99>>, v |-> 3] }

\* the header set of those files (one header carries surrounding blanks)
TimeHeaders == { {"DATE", "TIME", " B7 ", "R6", "R8"} }

\* sample lines of the files that differ in their columns
ColumnLines ==
    { [DATE |-> Jan1, TIME |-> <<0, 1, 5>>, v |-> 1],
      [DATE |-> Jan1, TIME |-> <<0, 1, 0>>, v |-> 2] }

DT == {"DATE", "TIME"}

\* the header sets of those files
ColumnHeaders ==
    { DT,
      DT \cup {"L6", "B2", "L8"},
      DT \cup {"R8"},
      DT \cup {"R6", "R8"},
      DT \cup overall_bare_anode_cols,
      {"B7"} }

\* headers of files that carry other columns than the bare-anode channels: a
\* module, totals of the rectifiers, a spare bare anode and its total, the two
\* alarm flags
OtherColumns ==
    {"L1", "Total", "Total REC.1", "Spare Bare Anode", "Total Spare Bare Anode",
     "Enable Alarm Rec.1", "Enable Alarm Rec.2"}

BadFile == [ok |-> FALSE, headers |-> {}, lines |-> <<>>]

RECURSIVE LineSeqs(_, _)
\* the sequences of at most n lines drawn from L
LineSeqs(L, n) ==
    IF n = 0 THEN {<<>>}
    ELSE {<<>>} \cup {<<l>> \o s : l \in L, s \in LineSeqs(L, n - 1)}

\* the files of at most n lines over TimeHeaders and TimeLines, and the file
\* that does not parse
TimeFiles(n) ==
    {BadFile} \cup
    { [ok |-> TRUE, headers |-> hs,
       lines |-> [i \in 1..Len(s) |-> MakeLine(s[i], hs)]] :
          hs \in TimeHeaders, s \in LineSeqs(TimeLines, n) }

\* the one-line files over the header sets of ColumnHeaders
ColumnFiles(n) ==
    IF n = 0 THEN {}
    ELSE { [ok |-> TRUE, headers |-> hs, lines |-> <<MakeLine(l, hs)>>] :
              hs \in ColumnHeaders, l \in ColumnLines }

\* the files of a kind that hold at most n lines
FilesOf(kind, n) == IF kind = "time" THEN TimeFiles(n) ELSE ColumnFiles(n)

RECURSIVE Batches(_, _, _)
\* the lists of at most f files of a kind holding at most n lines together
Batches(kind, f, n) ==
    IF f = 0 THEN {<<>>}
    ELSE {<<>>} \cup
         UNION { {<<file>> \o rest :
                     rest \in Batches(kind, f - 1, n - Len(file.lines))} :
                 file \in FilesOf(kind, n) }

\* what the file uploader can hand to the script
Uploads ==
    LET bs == Batches("time", MaxFiles, MaxLines)
                \cup Batches("columns", MaxFiles, MaxLines)
    IN { [i \in 1..Len(b) |->
            [name |-> i, ok |-> b[i].ok, headers |-> b[i].headers,
             lines |-> b[i].lines]] : b \in bs }

(***************************************************************************)
(* load_and_combine_data                                                   *)
(***************************************************************************)
Raise == "raise"

\* pd.read_csv(file), then temp_df.columns = temp_df.columns.str.strip()
read_csv(file) ==
    IF ~file.ok THEN [kind |-> Raise]
    ELSE LET cols == {Strip(h) : h \in file.headers}
         IN [kind |-> "table", columns |-> cols,
             rows |-> [i \in 1..Len(file.lines) |->
                         [c \in cols |->
                            file.lines[i][CHOOSE h \in file.headers : Strip(h) = c]]]]

RECURSIVE ParsedUntilFailure(_)
\* ParsedFiles giving up at the first file that raises
ParsedUntilFailure(files) ==
    IF files = <<>> \/ read_csv(Head(files)).kind = Raise THEN <<>>
    ELSE <<Head(files)>> \o ParsedUntilFailure(Tail(files))

\* the files of the list that parse, in order
ParsedFiles(files) == SelectSeq(files, LAMBDA f : read_csv(f).kind # Raise)

\* st.error(f"Error reading file {file.name}: {e}") for each file that raises
ReadErrors(files) ==
    LET bad == SelectSeq(files, LAMBDA f : read_csv(f).kind = Raise)
    IN [i \in 1..Len(bad) |-> [level |-> "error", text |-> "Error reading file",
                               name |-> Some(bad[i].name)]]

RECURSIVE Flatten(_)
Flatten(ss) == IF ss = <<>> THEN <<>> ELSE Head(ss) \o Flatten(Tail(ss))

\* pd.concat(all_dfs, ignore_index=True): column union, NaN where a frame
\* lacks the column
concat(all_dfs) ==
    LET cols == UNION {all_dfs[i].columns : i \in DOMAIN all_dfs}
        widen(t) == [i \in 1..Len(t.rows) |->
                       [c \in cols |-> IF c \in t.columns THEN t.rows[i][c] ELSE NaN]]
    IN [columns |-> cols,
        rows |-> Flatten([i \in DOMAIN all_dfs |-> widen(all_dfs[i])])]

\* combined_df['Timestamp'] = pd.to_datetime(DATE + ' ' + TIME, ...)
AddTimestamp(rows) ==
    [i \in DOMAIN rows |->
        [Timestamp |-> to_datetime(rows[i]["DATE"], rows[i]["TIME"]), cells |-> rows[i]]]

\* combined_df.dropna(subset=['Timestamp'])
dropna(rows) == SelectSeq(rows, LAMBDA r : r.Timestamp # NaT)

\* sort_values leaving the rows as they came
sort_values_skipped(rows) == {rows}

RECURSIVE sort_values(_)
\* combined_df.sort_values(by='Timestamp'): the default sort is not stable, so
\* every non-decreasing arrangement of the rows is a possible outcome
sort_values(rows) ==
    IF rows = <<>> THEN {<<>>}
    ELSE LET h == Head(rows)
             fits(s, k) ==
                 /\ (k > 0 => Val(s[k].Timestamp) <= Val(h.Timestamp))
                 /\ (k < Len(s) => Val(h.Timestamp) <= Val(s[k + 1].Timestamp))
         IN UNION { { SubSeq(s, 1, k) \o <<h>> \o SubSeq(s, k + 1, Len(s)) :
                        k \in {j \in 0..Len(s) : fits(s, j)} } :
                    s \in sort_values(Tail(rows)) }

\* a + b of two cells (NaN if either is NaN)
NanAdd(a, b) == IF a = NaN \/ b = NaN THEN NaN ELSE Some(Val(a) + Val(b))

RECURSIVE SumSkipNa(_, _)
\* DataFrame[cols].sum(axis=1) of one row: NaN cells are skipped
SumSkipNa(r, cols) ==
    IF cols = {} THEN 0
    ELSE LET c == CHOOSE x \in cols : TRUE
         IN (IF r[c] = NaN THEN 0 ELSE Val(r[c])) + SumSkipNa(r, cols \ {c})

\* 1. Bare Anode B7 (REC.1)
bare_b7(r, cols) == IF "B7" \in cols THEN r["B7"] ELSE Some(0)

\* 2. Total Left Bare Anode (L6+B4)
total_left(r, cols) ==
    IF "L6" \in cols /\ "B4" \in cols THEN NanAdd(r["L6"], r["B4"]) ELSE Some(0)

\* total_right with R6 added twice in place of R6 + R8
total_right_twice(r, cols) ==
    IF "R6" \in cols /\ "R8" \in cols THEN NanAdd(r["R6"], r["R6"]) ELSE Some(0)

\* 3. Total Right Bare Anode (R6+R8)
total_right(r, cols) ==
    IF "R6" \in cols /\ "R8" \in cols THEN NanAdd(r["R6"], r["R8"]) ELSE Some(0)

\* total_bottom without the zero fallback
total_bottom_nofallback(r, cols) ==
    LET existing_bottom_cols == bottom_cols \cap cols
    IN IF existing_bottom_cols # {}
       THEN Some(SumSkipNa(r, existing_bottom_cols)) ELSE NaN

\* 4. Total Bottom Bare Anode (B2+B3+L8+L10+L12)
total_bottom(r, cols) ==
    LET existing_bottom_cols == bottom_cols \cap cols
    IN IF existing_bottom_cols # {}
       THEN Some(SumSkipNa(r, existing_bottom_cols)) ELSE Some(0)

\* 5. Overall Bare Anode
overall_bare(r, cols) ==
    LET existing_overall_cols == overall_bare_anode_cols \cap cols
    IN IF existing_overall_cols # {}
       THEN Some(SumSkipNa(r, existing_overall_cols)) ELSE Some(0)

\* the five assignments, in the code's order, on one row
AddDerived(r, cols) ==
    [c \in cols \cup DerivedCols |->
        CASE c = BareB7 -> bare_b7(r, cols)
          [] c = TotalLeft -> total_left(r, cols)
          [] c = TotalRight -> total_right(r, cols)
          [] c = TotalBottom -> total_bottom(r, cols)
          [] c = OverallBare -> overall_bare(r, cols)
          [] OTHER -> r[c]]

\* the outcomes of load_and_combine_data(uploaded_files): each is
\* [kind, result, errors]; kind "return" with result None or Some(table), the
\* table [columns, rows] indexed by Timestamp, or kind Raise (KeyError: no
\* parsed file has a DATE or a TIME column)
load_and_combine_data(files) ==
    LET parsed == ParsedFiles(files)
        all_dfs == [i \in DOMAIN parsed |-> read_csv(parsed[i])]
        errors == ReadErrors(files)
        combined == concat(all_dfs)
    IN IF all_dfs = <<>>
       THEN {[kind |-> "return", result |-> None, errors |-> errors]}
       ELSE IF ~({"DATE", "TIME"} \subseteq combined.columns)
       THEN {[kind |-> Raise, result |-> None, errors |-> errors]}
       ELSE { [kind |-> "return",
               result |-> Some(
                 [columns |-> combined.columns \cup DerivedCols,
                  rows |-> [i \in DOMAIN s |->
                              [Timestamp |-> s[i].Timestamp,
                               cells |-> AddDerived(s[i].cells, combined.columns)]]]),
               errors |-> errors] :
              s \in sort_values(dropna(AddTimestamp(combined.rows))) }

(***************************************************************************)
(* Sidebar: column classes, pickers, resample rule.                        *)
(***************************************************************************)
\* df.select_dtypes(include=['float', 'int']).columns: DATE and TIME hold text
all_numeric_cols(t) == t.columns \ {"DATE", "TIME"}

\* 'Total' in col / 'Bare Anode' in col, on the column names of the model
HasTotal(c) ==
    c \in {TotalLeft, TotalRight, TotalBottom,
           "Total", "Total REC.1", "Total Spare Bare Anode"}
HasBareAnode(c) ==
    c \in DerivedCols \cup {"Spare Bare Anode", "Total Spare Bare Anode"}

original_fixed_cols(t) ==
    {c \in all_numeric_cols(t) : HasTotal(c) /\ ~HasBareAnode(c)}

FIXED_TOTAL_COLS(t) ==
    {c \in original_fixed_cols(t) \cup DerivedCols : c \in all_numeric_cols(t)}

selectable_cols(t) ==
    {c \in all_numeric_cols(t) :
        /\ c \notin FIXED_TOTAL_COLS(t)
        /\ c \notin {"DATE", "TIME", "Enable Alarm Rec.1", "Enable Alarm Rec.2"}}

\* interval_options: the rules of the model and their bucket widths in seconds
RuleChoices == {None, Some("10S"), Some("30S")}
BucketWidth(rule) == IF rule = "10S" THEN 10 ELSE 30

min_dt(t) == Val(t.rows[1].Timestamp)
max_dt(t) == Val(t.rows[Len(t.rows)].Timestamp)

\* the time pickers start at min_dt / max_dt and step by whole minutes: the
\* minute 00:01:00 of the sample lines
WholeMinutes == {60}
StartChoices(t) == {min_dt(t)} \cup WholeMinutes
EndChoices(t) == {max_dt(t)} \cup WholeMinutes

\* the multiselect: nothing, or every selectable column
SelectionChoices(t) == {{}, selectable_cols(t)}

(***************************************************************************)
(* Data processing: range filter and resampling.                           *)
(***************************************************************************)
\* `if start_date > end_date:` of the sidebar, the check left out
RangeUnchecked(start, end) == FALSE

\* `if start_date > end_date:` of the sidebar
InvalidRange(start, end) == start > end

\* the mask with the end bound exclusive
InMaskOpenEnd(r, start, end) == Val(r.Timestamp) >= start /\ Val(r.Timestamp) < end

\* mask = (df.index >= start_date) & (df.index <= end_date); df.loc[mask]
InMask(r, start, end) == Val(r.Timestamp) >= start /\ Val(r.Timestamp) <= end

Filter(rows, start, end) == SelectSeq(rows, LAMBDA r : InMask(r, start, end))

\* the emptiness check left out
NeverEmpty(rows) == FALSE

\* filtered_raw_df.empty
IsEmpty(rows) == rows = <<>>

\* the left edge of the bucket of width w that holds t
Bucket(t, w) == (t \div w) * w

\* the defined values of column c in the rows of bucket b
BucketValues(rows, c, b, w) ==
    LET in == SelectSeq(rows, LAMBDA r :
                  Bucket(Val(r.Timestamp), w) = b /\ r.cells[c] # NaN)
    IN [i \in DOMAIN in |-> Val(in[i].cells[c])]

\* sum() in place of mean()
BucketSum(rows, c, b, w) ==
    LET ys == BucketValues(rows, c, b, w)
    IN IF ys = <<>> THEN NaN ELSE Some(Rat(SeqSum(ys), 1))

\* mean() of one bucket of one column: NaN when it holds no defined value
BucketMean(rows, c, b, w) ==
    LET ys == BucketValues(rows, c, b, w)
    IN IF ys = <<>> THEN NaN ELSE Some(Rat(SeqSum(ys), Len(ys)))

\* the bins of resample(rule): every bucket from the one of the first row to
\* the one of the last row
Bins(rows, w) ==
    IF rows = <<>> THEN <<>>
    ELSE LET first == Bucket(Val(rows[1].Timestamp), w)
             last == Bucket(Val(rows[Len(rows)].Timestamp), w)
         IN [k \in 1..((last - first) \div w + 1) |-> first + (k - 1) * w]

\* plot_df = filtered_raw_df[all_plotting_cols]; if selected_resample_rule:
\* plot_df = plot_df.resample(selected_resample_rule).mean()
MakePlotDf(rows, cols, rule) ==
    IF rule = None
    THEN [i \in DOMAIN rows |->
            [Timestamp |-> rows[i].Timestamp,
             cells |-> [c \in cols |->
                          IF rows[i].cells[c] = NaN THEN NaN
                          ELSE Some(Rat(Val(rows[i].cells[c]), 1))]]]
    ELSE LET w == BucketWidth(Val(rule))
             bins == Bins(rows, w)
         IN [k \in DOMAIN bins |->
               [Timestamp |-> Some(bins[k]),
                cells |-> [c \in cols |-> BucketMean(rows, c, bins[k], w)]]]

(***************************************************************************)
(* calculate_auc                                                           *)
(***************************************************************************)
\* one trapezoid from the first sample to the last, the samples between left out
TrapezoidEnds(y, x) ==
    IF Len(y) < 2 THEN Zero
    ELSE Rat((x[Len(x)] - x[1]) * (y[1] + y[Len(y)]), 2)

RECURSIVE Trapezoid(_, _)
\* np.trapezoid(y, x): the sum of (x[i+1]-x[i]) * (y[i]+y[i+1]) / 2
Trapezoid(y, x) ==
    IF Len(y) < 2 THEN Zero
    ELSE RatAdd(Rat((x[2] - x[1]) * (y[1] + y[2]), 2), Trapezoid(Tail(y), Tail(x)))

\* [kind, coulombs, amp_hours, avg_current]: kind Raise is the IndexError of
\* df.index[0] on a frame without rows; a result is NaN when a sample is
calculate_auc(rows, col_name) ==
    IF rows = <<>> THEN [kind |-> Raise, coulombs |-> NaN, amp_hours |-> NaN,
                         avg_current |-> NaN]
    ELSE LET y == [i \in DOMAIN rows |-> rows[i].cells[col_name]]
             x_seconds == [i \in DOMAIN rows |->
                             Val(rows[i].Timestamp) - Val(rows[1].Timestamp)]
             defined == \A i \in DOMAIN y : y[i] # NaN
             area_coulombs ==
                 IF Len(y) < 2 THEN Some(Zero)
                 ELSE IF ~defined THEN NaN
                 ELSE Some(Trapezoid([i \in DOMAIN y |-> Val(y[i])], x_seconds))
             area_amp_hours ==
                 IF area_coulombs = NaN THEN NaN
                 ELSE Some(RatDiv(Val(area_coulombs), 3600))
             duration_seconds == x_seconds[Len(x_seconds)]
             avg_current ==
                 IF duration_seconds > 0
                 THEN (IF area_coulombs = NaN THEN NaN
                       ELSE Some(RatDiv(Val(area_coulombs), duration_seconds)))
                 ELSE Some(Zero)
         IN [kind |-> "return", coulombs |-> area_coulombs,
             amp_hours |-> area_amp_hours, avg_current |-> avg_current]

(***************************************************************************)
(* State of one session of the script.                                     *)
(***************************************************************************)
VARIABLES
    uploaded_files,   \* the file uploader's list
    pc,               \* where the script run stands
    df,               \* what load_and_combine_data returned (None before)
    messages,         \* st.error / st.warning / st.info shown by the run
    start_date,       \* start picker value of the run (None before the sidebar)
    end_date,         \* end picker value of the run
    selected_resample_rule,
    filtered_raw_df,  \* rows of df selected by the mask (None if not computed)
    plot_df,          \* the charted view (None if not computed)
    summary,          \* calculate_auc per summarised column (None if not computed)
    selected_non_total_cols

vars == <<uploaded_files, pc, df, messages, start_date, end_date,
          selected_resample_rule, filtered_raw_df, plot_df, summary,
          selected_non_total_cols>>

Init ==
    /\ uploaded_files = <<>>
    /\ pc = "upload"
    /\ df = None
    /\ messages = <<>>
    /\ start_date = None
    /\ end_date = None
    /\ selected_resample_rule = None
    /\ filtered_raw_df = None
    /\ plot_df = None
    /\ summary = None
    /\ selected_non_total_cols = {}

\* the user fills the file uploader; the script reruns from the top
Upload ==
    /\ pc = "upload"
    /\ \E files \in Uploads : uploaded_files' = files
    /\ pc' = "load"
    /\ UNCHANGED <<df, messages, start_date, end_date, selected_resample_rule,
                   filtered_raw_df, plot_df, summary, selected_non_total_cols>>

\* `if uploaded_files: df = load_and_combine_data(uploaded_files)` and the
\* two branches that stop the run before the chart settings
Load ==
    /\ pc = "load"
    /\ IF uploaded_files = <<>>
       THEN /\ messages' = <<[level |-> "info", text |-> "Please upload CSV files.",
                              name |-> None]>>
            /\ df' = None
            /\ pc' = "stopped"
       ELSE \E out \in load_and_combine_data(uploaded_files) :
              /\ df' = out.result
              /\ IF out.kind = Raise
                 THEN /\ messages' = out.errors
                      /\ pc' = "crashed"
                 ELSE IF out.result = None \/ Val(out.result).rows = <<>>
                 THEN /\ messages' = Append(out.errors,
                              [level |-> "error", text |-> "Error reading data.",
                               name |-> None])
                      /\ pc' = "stopped"
                 ELSE /\ messages' = out.errors
                      /\ pc' = "sidebar"
    /\ UNCHANGED <<uploaded_files, start_date, end_date, selected_resample_rule,
                   filtered_raw_df, plot_df, summary, selected_non_total_cols>>

\* the summaries fed from a resampled timeline: each row moved to the left
\* edge of its bucket
summary_frame_resampled(filtered, rule) ==
    IF rule = None THEN filtered
    ELSE [i \in DOMAIN filtered |->
            [Timestamp |-> Some(Bucket(Val(filtered[i].Timestamp),
                                       BucketWidth(Val(rule)))),
             cells |-> filtered[i].cells]]

\* the frame both summary loops hand to calculate_auc: filtered_raw_df,
\* whatever the selected rule
summary_frame(filtered, rule) == filtered

\* the messages of the run so far
Say(level, text) == Append(messages, [level |-> level, text |-> text, name |-> None])

\* the rest of a run that reached the chart settings: the pickers and the
\* start/end check of the sidebar, then the data processing and the summaries
Interact ==
    /\ pc = "sidebar"
    /\ \E start \in StartChoices(Val(df)), end \in EndChoices(Val(df)),
          rule \in RuleChoices, selected \in SelectionChoices(Val(df)) :
         /\ start_date' = Some(start)
         /\ end_date' = Some(end)
         /\ selected_resample_rule' = rule
         /\ selected_non_total_cols' = selected
         /\ IF InvalidRange(start, end)
            THEN /\ messages' = Say("error", "start after end")
                 /\ pc' = "stopped"
                 /\ UNCHANGED <<filtered_raw_df, plot_df, summary>>
            ELSE LET filtered == Filter(Val(df).rows, start, end)
                     all_plotting_cols == selected \cup FIXED_TOTAL_COLS(Val(df))
                 IN /\ filtered_raw_df' = Some(filtered)
                    /\ IF IsEmpty(filtered)
                       THEN /\ messages' = Say("warning", "no data in range")
                            /\ pc' = "stopped"
                            /\ UNCHANGED <<plot_df, summary>>
                       ELSE /\ plot_df' = Some(MakePlotDf(filtered, all_plotting_cols, rule))
                            /\ summary' = Some([c \in all_plotting_cols |->
                                   calculate_auc(summary_frame(filtered, rule), c)])
                            /\ pc' = "done"
                            /\ UNCHANGED messages
    /\ UNCHANGED <<uploaded_files, df>>

\* a widget changes: the script reruns, load_and_combine_data answers from
\* st.cache_data (same table, same replayed messages)
Rerun ==
    /\ pc \in {"done", "stopped"}
    /\ df # None /\ Val(df).rows # <<>>
    /\ pc' = "sidebar"
    /\ messages' = ReadErrors(uploaded_files)
    /\ start_date' = None
    /\ end_date' = None
    /\ selected_resample_rule' = None
    /\ selected_non_total_cols' = {}
    /\ filtered_raw_df' = None
    /\ plot_df' = None
    /\ summary' = None
    /\ UNCHANGED <<uploaded_files, df>>

\* the user clears the file uploader
RemoveFiles ==
    /\ pc \in {"done", "stopped", "crashed"}
    /\ uploaded_files' = <<>>
    /\ pc' = "upload"
    /\ df' = None
    /\ messages' = <<>>
    /\ start_date' = None
    /\ end_date' = None
    /\ selected_resample_rule' = None
    /\ selected_non_total_cols' = {}
    /\ filtered_raw_df' = None
    /\ plot_df' = None
    /\ summary' = None

Next == Upload \/ Load \/ Interact \/ Rerun \/ RemoveFiles

Spec == Init /\ [][Next]_vars

(***************************************************************************)
(* calculate_auc on its own: any time-ordered series of one column.        *)
(***************************************************************************)
AucStamps == {60, 65, 85}
AucCells == {Some(1), Some(2), NaN}

\* the rows a series may hold
AucRows ==
    { [Timestamp |-> Some(t), cells |-> [c \in {"B7"} |-> y]] :
        t \in AucStamps, y \in AucCells }

\* row r may follow the rows of s
Follows(s, r) ==
    s = <<>> \/ Val(s[Len(s)].Timestamp) <= Val(r.Timestamp)

RECURSIVE AucSeries(_)
\* the series of at most n rows in non-decreasing Timestamp order
AucSeries(n) ==
    IF n = 0 THEN {<<>>}
    ELSE LET shorter == AucSeries(n - 1)
         IN shorter \cup
            UNION { {Append(s, r) : r \in {x \in AucRows : Follows(s, x)}} :
                    s \in {z \in shorter : Len(z) = n - 1} }

\* the two rows (00:00:00, 10) and (00:00:10, 20)
ExampleSeries ==
    << [Timestamp |-> Some(0), cells |-> [c \in {"B7"} |-> Some(10)]],
       [Timestamp |-> Some(10), cells |-> [c \in {"B7"} |-> Some(20)]] >>

\* the frames calculate_auc is applied to
AucFrames == AucSeries(MaxAucRows) \cup {ExampleSeries}

InitAuc ==
    /\ uploaded_files = <<>>
    /\ pc = "auc"
    /\ df = None
    /\ messages = <<>>
    /\ start_date = None
    /\ end_date = None
    /\ selected_resample_rule = None
    /\ filtered_raw_df \in {Some(s) : s \in AucFrames}
    /\ plot_df = None
    /\ summary = None
    /\ selected_non_total_cols = {}

\* calculate_auc(filtered_raw_df, 'B7')
ApplyAuc ==
    /\ pc = "auc"
    /\ summary' = Some([c \in {"B7"} |-> calculate_auc(Val(filtered_raw_df), c)])
    /\ pc' = "auc_done"
    /\ UNCHANGED <<uploaded_files, df, messages, start_date, end_date,
                   selected_resample_rule, filtered_raw_df, plot_df,
                   selected_non_total_cols>>

NextAuc == ApplyAuc

SpecAuc == InitAuc /\ [][NextAuc]_vars

(***************************************************************************)
(* The column classes on their own: one file of one line whose header is   *)
(* DATE, TIME and any of OtherColumns, loaded and charted.                 *)
(***************************************************************************)
ClassUploads ==
    { <<[name |-> 1, ok |-> TRUE, headers |-> DT \cup xs,
         lines |-> <<MakeLine([DATE |-> Jan1, TIME |-> <<0, 1, 0>>, v |-> 2],
                              DT \cup xs)>>]>> :
        xs \in SUBSET OtherColumns }

InitColumns ==
    /\ uploaded_files \in ClassUploads
    /\ pc = "load"
    /\ df = None
    /\ messages = <<>>
    /\ start_date = None
    /\ end_date = None
    /\ selected_resample_rule = None
    /\ filtered_raw_df = None
    /\ plot_df = None
    /\ summary = None
    /\ selected_non_total_cols = {}

NextColumns == Load \/ Interact

SpecColumns == InitColumns /\ [][NextColumns]_vars

(***************************************************************************)
(* Properties of load_and_combine_data.                                    *)
(***************************************************************************)
\* the run has called load_and_combine_data and it returned a table
Loaded == df # None

\* the column names of the files of the upload that parse
UploadedColumns ==
    UNION { {Strip(h) : h \in uploaded_files[i].headers} :
            i \in {j \in DOMAIN uploaded_files : uploaded_files[j].ok} }

RECURSIVE SumOf(_, _)
\* the sum of the cells of row r in the columns S, all defined
SumOf(r, S) ==
    IF S = {} THEN 0
    ELSE LET c == CHOOSE x \in S : TRUE IN r[c][1] + SumOf(r, S \ {c})

\* the source channels of d that row r holds a value for
Available(r, d) == {c \in Sources(d) : c \in DOMAIN r /\ r[c] # <<>>}

\* C1: once load_and_combine_data has returned a table, the five derived
\* columns are columns of it and every row holds a cell for each; a derived
\* column none of whose source channels is a column of any uploaded file holds
\* 0 in every row.
C1_DerivedPresent ==
    Loaded =>
        LET t == Val(df) IN
        /\ DerivedCols \subseteq t.columns
        /\ \A i \in DOMAIN t.rows :
             /\ DerivedCols \subseteq DOMAIN t.rows[i].cells
             /\ \A d \in DerivedCols :
                  Sources(d) \cap UploadedColumns = {} => t.rows[i].cells[d] = <<0>>

\* C1 witness: a table with rows, loaded from files without any source channel
C1_Witness ==
    /\ Loaded
    /\ Val(df).rows # <<>>
    /\ overall_bare_anode_cols \cap UploadedColumns = {}

\* C2 (as claimed): in every row, Total Left, Total Right and Total Bottom equal
\* the sum of those of their source channels that the row holds a value for.
C2_PartialSum ==
    Loaded =>
        \A i \in DOMAIN Val(df).rows :
            \A d \in {TotalLeft, TotalRight, TotalBottom} :
                LET r == Val(df).rows[i].cells
                IN r[d] = <<SumOf(r, Available(r, d))>>

\* C3: a derived column all of whose source channels are columns of the table,
\* defined in every row, holds in each row the sum of exactly those channels.
C3_FullSum ==
    Loaded =>
        LET t == Val(df) IN
        \A d \in DerivedCols :
            (/\ Sources(d) \subseteq t.columns
             /\ \A i \in DOMAIN t.rows : Available(t.rows[i].cells, d) = Sources(d))
            => \A i \in DOMAIN t.rows :
                   t.rows[i].cells[d] = <<SumOf(t.rows[i].cells, Sources(d))>>

\* C3 witness: a table of two rows or more in which all ten source channels are
\* defined in every row
C3_Witness ==
    /\ Loaded
    /\ Len(Val(df).rows) >= 2
    /\ \A i \in DOMAIN Val(df).rows :
         Available(Val(df).rows[i].cells, OverallBare) = overall_bare_anode_cols

\* the run is past the call of load_and_combine_data
AfterLoad == pc \notin {"upload", "load"} /\ uploaded_files # <<>>

\* the lines of the files that parse, in upload order, each with the file's
\* headers
SourceLines ==
    LET ok == SelectSeq(uploaded_files, LAMBDA f : f.ok)
    IN Flatten([i \in DOMAIN ok |->
                  [j \in DOMAIN ok[i].lines |->
                     [headers |-> ok[i].headers, line |-> ok[i].lines[j]]]])

\* the Timestamp of a source line: <<t>>, or <<>> when DATE + ' ' + TIME does
\* not parse (or the file has no such column)
StampOf(sl) ==
    IF {"DATE", "TIME"} \subseteq sl.headers
    THEN to_datetime(sl.line["DATE"], sl.line["TIME"]) ELSE <<>>

\* the readings of a source line: its channel names and values
ReadingsOf(sl) == {<<Strip(h), sl.line[h]>> : h \in sl.headers \ {"DATE", "TIME"}}

\* the readings of a row of the table that came from a file
RowReadings(r) ==
    {<<c, r.cells[c]>> :
        c \in {x \in DOMAIN r.cells \ ({"DATE", "TIME"} \cup DerivedCols) :
                  r.cells[x] # <<>>}}

\* C4: the returned table holds exactly one row for each line of a parsed file
\* whose DATE + ' ' + TIME parses (same Timestamp, same readings, same number of
\* copies), no row without a Timestamp, its rows in non-decreasing Timestamp
\* order; and a line that does not parse does not keep the load from returning
\* the rows of the lines that do.
C4_RowsOfParseableLines ==
    LET src == SourceLines
        good == {j \in DOMAIN src : StampOf(src[j]) # <<>>}
    IN /\ Loaded =>
            LET rows == Val(df).rows IN
            /\ Len(rows) = Cardinality(good)
            /\ \A i \in DOMAIN rows :
                 /\ rows[i].Timestamp # <<>>
                 /\ Cardinality({k \in DOMAIN rows :
                        /\ rows[k].Timestamp = rows[i].Timestamp
                        /\ RowReadings(rows[k]) = RowReadings(rows[i])})
                    = Cardinality({j \in good :
                        /\ StampOf(src[j]) = rows[i].Timestamp
                        /\ ReadingsOf(src[j]) = RowReadings(rows[i])})
            /\ \A i, k \in DOMAIN rows :
                 i < k => rows[i].Timestamp[1] <= rows[k].Timestamp[1]
       /\ (AfterLoad /\ good # {}) => Loaded

\* C4 witness: a table of two rows or more, loaded from lines of which one does
\* not parse and whose Timestamps are not in order in the upload
C4_Witness ==
    LET src == SourceLines IN
    /\ Loaded
    /\ Len(Val(df).rows) >= 2
    /\ \E j \in DOMAIN src :
         {"DATE", "TIME"} \subseteq src[j].headers /\ StampOf(src[j]) = <<>>
    /\ \E i, j \in DOMAIN src :
         /\ i < j
         /\ StampOf(src[i]) # <<>> /\ StampOf(src[j]) # <<>>
         /\ StampOf(src[i])[1] > StampOf(src[j])[1]

\* C5: after the load, every file that failed to parse is named by an error
\* message (and no other file is); when a table is returned it holds the rows
\* of every file that parsed, wherever the failing files stand in the list; and
\* the load returned None exactly when no file of the list parsed.
C5_FailingFilesSkipped ==
    AfterLoad =>
        LET bad == {i \in DOMAIN uploaded_files : ~uploaded_files[i].ok}
            named == {messages[k].name[1] :
                        k \in {m \in DOMAIN messages :
                                  messages[m].text = "Error reading file"}}
            src == SourceLines
        IN /\ named = {uploaded_files[i].name : i \in bad}
           /\ Loaded => Len(Val(df).rows)
                          = Cardinality({j \in DOMAIN src : StampOf(src[j]) # <<>>})
           /\ (df = None /\ pc # "crashed") <=> (bad = DOMAIN uploaded_files)

\* C5 witness: a table with the rows of a file that follows a failing file
C5_Witness ==
    /\ AfterLoad
    /\ Len(uploaded_files) >= 2
    /\ ~uploaded_files[1].ok
    /\ Loaded
    /\ Val(df).rows # <<>>

(***************************************************************************)
(* Properties of the range filter and the resampler.                       *)
(***************************************************************************)
\* the run has read the pickers
Picked == start_date # None

\* the rows of the table whose Timestamp lies in [start_date, end_date]
RowsInRange ==
    SelectSeq(Val(df).rows, LAMBDA r :
        start_date[1] <= r.Timestamp[1] /\ r.Timestamp[1] <= end_date[1])

LastMessage == messages[Len(messages)]

\* C6: for start <= end the filtered series is exactly the rows of the
\* combined series with start <= Timestamp <= end, in the order of the combined
\* series, and the run leaves the combined series as it was.
C6_FilterInclusive ==
    /\ [](filtered_raw_df # None => Val(filtered_raw_df) = RowsInRange)
    /\ [][pc = "sidebar" => df' = df]_vars

\* C6 witness: a filtered series that holds some rows of the combined series
\* but not all, one of them with Timestamp = start = end
C6_Witness ==
    /\ filtered_raw_df # None
    /\ Val(filtered_raw_df) # <<>>
    /\ Len(Val(filtered_raw_df)) < Len(Val(df).rows)
    /\ start_date = end_date
    /\ Val(filtered_raw_df)[1].Timestamp = start_date

\* C7: a run whose start is later than its end shows the input error and stops:
\* no filtered rows, no resampled view, no summary, the combined series as it was.
C7_StartAfterEndHalts ==
    [][(start_date' # None /\ start_date'[1] > end_date'[1]) =>
         /\ pc' = "stopped"
         /\ messages'[Len(messages')]
              = [level |-> "error", text |-> "start after end", name |-> None]
         /\ filtered_raw_df' = None
         /\ plot_df' = None
         /\ summary' = None
         /\ df' = df]_vars

\* C7 witness: a run stopped with start later than end
C7_Witness ==
    /\ Picked
    /\ start_date[1] > end_date[1]
    /\ pc = "stopped"

\* C8: a run with start <= end and no row in the range has an empty filtered
\* series, shows the 'no data in range' warning (not the range error, not the
\* load error, not the upload prompt) and stops before the resampled view and
\* the summaries; calculate_auc is never applied to an empty series.
C8_EmptyRangeStops ==
    /\ (Picked /\ start_date[1] <= end_date[1] /\ RowsInRange = <<>>) =>
          /\ filtered_raw_df = Some(<<>>)
          /\ pc = "stopped"
          /\ LastMessage.text = "no data in range"
          /\ LastMessage.level = "warning"
          /\ LastMessage.text \notin
                {"start after end", "Error reading data.", "Please upload CSV files.",
                 "Error reading file"}
          /\ plot_df = None
          /\ summary = None
    /\ summary # None =>
          /\ Val(filtered_raw_df) # <<>>
          /\ \A c \in DOMAIN Val(summary) : Val(summary)[c].kind = "return"

\* C8 witness: a run with start <= end that found no row in the range
C8_Witness ==
    /\ Picked
    /\ start_date[1] <= end_date[1]
    /\ filtered_raw_df = Some(<<>>)

\* the bucket width of the selected rule
RuleWidth == IF selected_resample_rule = <<"10S">> THEN 10 ELSE 30

\* the left edge of the bucket of a Timestamp
EdgeOf(ts) == ts[1] - (ts[1] % RuleWidth)

\* the defined values of column c of the filtered rows in the bucket at edge b
RawValues(c, b) ==
    LET in == SelectSeq(Val(filtered_raw_df), LAMBDA r :
                  EdgeOf(r.Timestamp) = b /\ r.cells[c] # <<>>)
    IN [i \in DOMAIN in |-> in[i].cells[c][1]]

RECURSIVE Total(_)
Total(ys) == IF ys = <<>> THEN 0 ELSE ys[1] + Total(Tail(ys))

\* cell is the mean of the values ys (a fraction in lowest terms), or
\* undefined when there are none
IsMeanOf(cell, ys) ==
    IF ys = <<>> THEN cell = <<>>
    ELSE /\ cell # <<>>
         /\ cell[1][2] > 0
         /\ cell[1][1] * Len(ys) = Total(ys) * cell[1][2]
         /\ \A g \in 2..cell[1][2] : ~(cell[1][1] % g = 0 /\ cell[1][2] % g = 0)

\* the edges of the buckets that hold a filtered row
NonEmptyEdges == {EdgeOf(Val(filtered_raw_df)[i].Timestamp) : i \in DOMAIN Val(filtered_raw_df)}

Resampled == plot_df # None /\ selected_resample_rule # None

\* C9 (as claimed): the resampled view has one row per bucket that holds a
\* filtered row, with the mean of the bucket, and no row for an empty bucket.
C9_EmptyBucketsOmitted ==
    Resampled =>
        LET view == Val(plot_df) IN
        /\ {view[k].Timestamp[1] : k \in DOMAIN view} = NonEmptyEdges
        /\ Len(view) = Cardinality(NonEmptyEdges)
        /\ \A k \in DOMAIN view : \A c \in DOMAIN view[k].cells :
               IsMeanOf(view[k].cells[c], RawValues(c, view[k].Timestamp[1]))

\* C9 (amended): the resampled view has exactly one row for every bucket from
\* the bucket of the first filtered row to the bucket of the last, in order;
\* each cell is the mean of the defined values of its column in the bucket,
\* and undefined when the bucket holds none (so an empty bucket between two
\* non-empty ones has a row of undefined cells, not filled from its neighbours).
C9_BucketsFirstToLast ==
    Resampled =>
        LET view == Val(plot_df)
            rows == Val(filtered_raw_df)
            first == EdgeOf(rows[1].Timestamp)
            last == EdgeOf(rows[Len(rows)].Timestamp)
        IN /\ Len(view) = (last - first) \div RuleWidth + 1
           /\ \A k \in DOMAIN view :
                /\ view[k].Timestamp = <<first + (k - 1) * RuleWidth>>
                /\ \A c \in DOMAIN view[k].cells :
                     IsMeanOf(view[k].cells[c], RawValues(c, view[k].Timestamp[1]))

\* C9 witness: a resampled view with a bucket of two rows or more and, between
\* two non-empty buckets, a row for an empty bucket
C9_Witness ==
    /\ Resampled
    /\ \E k \in DOMAIN Val(plot_df) :
         /\ 1 < k /\ k < Len(Val(plot_df))
         /\ Val(plot_df)[k].Timestamp[1] \notin NonEmptyEdges
    /\ \E c \in DOMAIN Val(plot_df)[1].cells :
         Len(RawValues(c, Val(plot_df)[1].Timestamp[1])) >= 2

(***************************************************************************)
(* Properties of the summaries.                                            *)
(***************************************************************************)
\* the run has computed the summaries
Summarised == pc = "done"

\* the columns the two summary loops go through
SummarisedColumns ==
    selected_non_total_cols \cup (DerivedCols \cap Val(df).columns)

\* C11: the summary of every column, fixed-total and user-selected, is
\* calculate_auc of the unresampled rows in range. It is a function of the
\* combined series, the range and the column alone, so two interactions that
\* differ only in the resample rule give the same (charge_coulombs,
\* charge_amp_hours, avg_current).
C11_SummaryFromRawRows ==
    Summarised =>
        /\ DOMAIN Val(summary) = SummarisedColumns
        /\ \A c \in SummarisedColumns :
              Val(summary)[c] = calculate_auc(RowsInRange, c)

\* C11 witness: summaries computed while a resample rule is selected whose
\* view has other Timestamps than the filtered rows, for a fixed-total column
\* and a selected column of non-zero charge
C11_Witness ==
    /\ Summarised
    /\ selected_resample_rule # None
    /\ {Val(plot_df)[k].Timestamp : k \in DOMAIN Val(plot_df)}
         # {Val(filtered_raw_df)[i].Timestamp : i \in DOMAIN Val(filtered_raw_df)}
    /\ \E c \in selected_non_total_cols :
         Val(summary)[c].coulombs \notin {<<>>, <<(<<0, 1>>)>>}
    /\ \E c \in DerivedCols :
         Val(summary)[c].coulombs \notin {<<>>, <<(<<0, 1>>)>>}

(***************************************************************************)
(* Properties of calculate_auc.                                            *)
(***************************************************************************)
\* calculate_auc has been applied to the series in filtered_raw_df
AucApplied == pc = "auc_done"

\* C10 (as claimed): on a series of no row or of one row calculate_auc returns
\* charge_coulombs = 0, charge_amp_hours = 0 and avg_current = 0 and does not
\* raise.
C10_DegenerateSeriesZero ==
    (AucApplied /\ Len(Val(filtered_raw_df)) <= 1) =>
        LET res == Val(summary)["B7"]
        IN /\ res.kind = "return"
           /\ res.coulombs = <<(<<0, 1>>)>>
           /\ res.amp_hours = <<(<<0, 1>>)>>
           /\ res.avg_current = <<(<<0, 1>>)>>

\* the Timestamps (seconds) and the values of column B7 of the series
AucT(i) == Val(filtered_raw_df)[i].Timestamp[1]
AucY(i) == Val(filtered_raw_df)[i].cells["B7"][1]

RECURSIVE TwiceArea(_)
\* the sum over the consecutive rows up to row n of (t[i+1]-t[i]) * (y[i]+y[i+1]),
\* twice the trapezoidal sum
TwiceArea(n) ==
    IF n < 2 THEN 0
    ELSE TwiceArea(n - 1) + (AucT(n) - AucT(n - 1)) * (AucY(n - 1) + AucY(n))

\* a series of two rows or more, every value defined
AucDefinedSeries ==
    /\ Len(Val(filtered_raw_df)) >= 2
    /\ \A i \in DOMAIN Val(filtered_raw_df) :
          Val(filtered_raw_df)[i].cells["B7"] # <<>>

\* the fraction q (numerator, denominator) is n / d
IsFraction(q, n, d) == q # <<>> /\ q[1][2] > 0 /\ q[1][1] * d = n * q[1][2]

\* C12: on a series of two rows or more with defined values calculate_auc
\* returns charge_coulombs = the trapezoidal sum over consecutive rows of
\* (t[i+1]-t[i]) * (y[i]+y[i+1]) / 2, charge_amp_hours = charge_coulombs / 3600
\* and, when the last Timestamp is later than the first, avg_current =
\* charge_coulombs / (last - first) in seconds.
C12_TrapezoidalCharge ==
    (AucApplied /\ AucDefinedSeries) =>
        LET res == Val(summary)["B7"]
            n == Len(Val(filtered_raw_df))
            span == AucT(n) - AucT(1)
        IN /\ res.kind = "return"
           /\ IsFraction(res.coulombs, TwiceArea(n), 2)
           /\ IsFraction(res.amp_hours, TwiceArea(n), 7200)
           /\ span > 0 => IsFraction(res.avg_current, TwiceArea(n), 2 * span)

\* C12 witness: the rows (00:00:00, 10) and (00:00:10, 20) give 150 coulombs,
\* 150/3600 = 1/24 Ah and 15 A
C12_Witness ==
    /\ AucApplied
    /\ AucDefinedSeries
    /\ Len(Val(filtered_raw_df)) = 2
    /\ AucT(1) = 0 /\ AucY(1) = 10 /\ AucT(2) = 10 /\ AucY(2) = 20
    /\ Val(summary)["B7"].coulombs = <<(<<150, 1>>)>>
    /\ Val(summary)["B7"].amp_hours = <<(<<1, 24>>)>>
    /\ Val(summary)["B7"].avg_current = <<(<<15, 1>>)>>

(***************************************************************************)
(* Properties of the column classes.                                       *)
(***************************************************************************)
\* the numeric columns of the combined series
NumericColumns == Val(df).columns \ {"DATE", "TIME"}

\* the column names that hold the token 'Total'
NamedTotal ==
    {"Total", "Total REC.1", "Total Spare Bare Anode",
     "Total Left Bare Anode (L6+B4)", "Total Right Bare Anode (R6+R8)",
     "Total Bottom Bare Anode (B2+B3+L8+L10+L12)"}

AlarmFlags == {"Enable Alarm Rec.1", "Enable Alarm Rec.2"}

\* the run has charted: the summaries go through the Fixed Total columns and
\* the selected columns, and the selection is drawn from the Selectable ones
Charted == pc = "done"

\* C13 (as claimed): a numeric column is Fixed Total exactly when its name
\* holds 'Total' or it is one of the five derived columns; every other numeric
\* column but the two alarm flags is Selectable; the alarm flags are in
\* neither class and no column is in both.
C13_ColumnClasses ==
    Charted =>
        LET fixed == FIXED_TOTAL_COLS(Val(df))
            selectable == selectable_cols(Val(df))
        IN /\ fixed = {c \in NumericColumns : c \in NamedTotal \/ c \in DerivedCols}
           /\ selectable = (NumericColumns \ fixed) \ AlarmFlags
           /\ AlarmFlags \cap (fixed \cup selectable) = {}
           /\ fixed \cap selectable = {}
           /\ DOMAIN Val(summary) = fixed \cup selected_non_total_cols
           /\ selected_non_total_cols \subseteq selectable

====
